---- MODULE Spec2Model ----
(***************************************************************************)
(* Model of the Dashboard component of the climate-resilient healthcare    *)
(* frontend (frontend/src/components/Dashboard.tsx) and of the map click   *)
(* wiring of IndiaLeafletMap.tsx: the selected location, the risk and      *)
(* resource prediction fetches it issues, and what their completions write *)
(* to the component state; and of the other views of the frontend: the     *)
(* pages that load the location catalog, the alerts page and the three map *)
(* components.  The runtime is a single event loop: every                  *)
(* action below is one macrotask (a user event, an effect, or the arrival  *)
(* of one network response followed by the microtasks it triggers).        *)
(***************************************************************************)
EXTENDS Integers, Sequences, FiniteSets, TLC

\* ---------------------------------------------------------------- bounds
\* location ids are 0..MaxLoc in a run of Spec
MaxLoc == 1
\* location ids are 0..MaxLocRace in a run of SpecRace
MaxLocRace == 2
\* selections (the hospital pre-selection included) in a run of Spec
MaxSelect == 1
\* selections in a run of SpecRace
MaxSelectRace == 3
\* selections (the pre-selection included) in a run of SpecHospital
MaxSelectHospital == 2
\* the largest resource quantity in a run of SpecGap
MaxQty == 100
\* the resource categories of a payload in a run of SpecRecommend
MaxCategories == 2
\* the largest resource quantity in a run of SpecRecommend
MaxSnapQty == 4

\* ------------------------------------------------------- value encodings
\* JavaScript values that are not location numbers.
Null == -1
NaN == -2
EmptyValue == -3

LocationIds == 0..MaxLoc
SelectInputs == LocationIds \cup {Null, NaN}
DropdownValues == LocationIds \cup {EmptyValue, NaN}
RaceInputs == (0..MaxLocRace) \cup {Null, NaN}
Outcomes == {"ok", "empty", "fail"}
\* the location_id a hospital user's token carries
UserLocationIds == {1}

\* name of a catalog location (Location.name)
LocName(l) ==
  CASE l = 0 -> "Kerala"
    [] l = 1 -> "Goa"
    [] l = 2 -> "Assam"
    [] l = 3 -> "Bihar"
    [] OTHER -> "Delhi"

\* rank of a name under String.localeCompare
NameRank(n) ==
  CASE n = "Assam" -> 1
    [] n = "Bihar" -> 2
    [] n = "Delhi" -> 3
    [] n = "Goa" -> 4
    [] n = "Kerala" -> 5
    [] OTHER -> 6

\* the messages the component writes with setError
MsgRiskNoData == "Failed to load risk data. Please try again later."
MsgRiskFailed == "Failed to load risk data. Please check your connection and try again."
MsgResNoData == "Failed to load resource data. Please try again later."
MsgResFailed == "Failed to load resource data. Please check your connection and try again."
MsgInvalid == "Invalid location selected. Please try again."
MsgSummary == "Failed to load summary data"

VARIABLES
  userRole,          \* prop: 'admin' | 'hospital'
  userLocationId,    \* prop: number | undefined (Null)
  mounted,           \* has the useEffect of the component run
  tab,               \* useState(0)
  selectedLocation,  \* useState<{id, name} | null>
  locations,         \* useState<LocationOption[]>: ids in dropdown order
  alerts,            \* useState<any[]>: location ids of the alerts shown
  riskData,          \* useState<any>(null)
  resourceData,      \* useState<any>(null)
  isLoading,         \* useState({summary, alerts, risk, resources})
  error,             \* useState('')
  pending,           \* prediction requests in flight
  summaryPending,    \* getDataSummary() in flight
  alertsPending,     \* getAlerts() in flight
  mapHandler,        \* the click closure the map layers were created with
  summaryData,       \* useState<any>(null)
  sels,              \* history: the location of every valid selection, in order
  cur,               \* history: how the current selection's fetches ended
  issued,            \* history: number of prediction requests issued
  lastOp,            \* history: the operation that produced this state
  records,           \* RiskAggregator: the DiseaseRiskRecords of one risk payload
  overall,           \* RiskAggregator: the OverallRisk computed from records
  available,         \* calculatePercentage: the argument available
  predicted,         \* calculatePercentage: the argument predicted
  resourceGap,       \* the ResourceGap computed from available and predicted
  snapshot,          \* the ResourceSnapshots of one resource payload
  recommendations,   \* resourceData.recommendations of the same payload
  catalog,           \* a view that loads the LocationCatalog: what it was sent and what it keeps
  feed,              \* the alerts page: the viewer, what /data/alerts holds, what is shown
  map                \* a map component: its props, its data and the colors it rendered

\* the state of the calculators, which no step of the Dashboard touches
\* the state of the other views
viewVars == <<catalog, feed, map>>

calcVars == <<records, overall, available, predicted, resourceGap, snapshot,
              recommendations, viewVars>>

vars == <<userRole, userLocationId, mounted, tab, selectedLocation, locations,
          alerts, riskData, resourceData, isLoading, error, pending,
          summaryPending, alertsPending, mapHandler, summaryData,
          sels, cur, issued, lastOp, calcVars>>

\* Selection.request_epoch: the component keeps no such counter; it is the
\* number of valid selections issued so far
request_epoch == Len(sels)

\* ------------------------------------------------------------ the values
NoSelection == [id |-> Null, name |-> ""]
NoData == [loc |-> Null, epoch |-> -1]
\* the payload the prediction endpoint returns for one request
Payload(f) == [loc |-> f.loc, epoch |-> f.epoch]
\* a prediction request: category, location, the selection count when it
\* was issued, and whether handleLocationSelect's Promise.all awaits it
Fetch(c, l, e, a) == [cat |-> c, loc |-> l, epoch |-> e, all |-> a]

\* the user operation that produced the state, "other" for every other step
Op(o, a) == [op |-> o, arg |-> a]
OtherOp == Op("other", Null)

\* the alerts the /data/alerts endpoint returns (their location ids)
UpstreamAlerts == <<1, 2, 1>>

\* !x for the values a location id can take
Falsy(x) == x \in {0, Null, NaN}
isNaN(x) == x = NaN
\* Number(event.target.value)
ToNumber(v) == IF v \in {EmptyValue, Null} THEN 0 ELSE v

\* ------------------------------------------------- LocationCatalog order
\* the orders in which /data/summary may list the locations
UpstreamOrders ==
  {s \in [1..(MaxLoc + 1) -> LocationIds] : \A i, j \in 1..(MaxLoc + 1) : s[i] = s[j] => i = j}

\* a.name.localeCompare(b.name) <= 0
NameLeq(a, b) == NameRank(LocName(a)) <= NameRank(LocName(b))

RECURSIVE Insert(_, _)
Insert(x, s) ==
  IF s = <<>> THEN <<x>>
  ELSE IF NameLeq(x, Head(s)) THEN <<x>> \o s
  ELSE <<Head(s)>> \o Insert(x, Tail(s))

\* locationsList.sort((a, b) => a.name.localeCompare(b.name))
RECURSIVE SortByName(_)
SortByName(s) == IF s = <<>> THEN <<>> ELSE Insert(Head(s), SortByName(Tail(s)))

\* data.alerts.filter(alert => alert.location_id === userLocationId)
RECURSIVE FilterByLocation(_, _)
FilterByLocation(s, l) ==
  IF s = <<>> THEN <<>>
  ELSE IF Head(s) = l THEN <<Head(s)>> \o FilterByLocation(Tail(s), l)
  ELSE FilterByLocation(Tail(s), l)

\* userRole === 'hospital' && userLocationId
IsHospitalWithLocation == userRole = "hospital" /\ ~Falsy(userLocationId)

\* ------------------------------------------------------------------ Init
\* the results before they are computed
NoOverallYet == [level |-> "not computed", contributing_disease |-> "null"]
NoGapYet == [ratio |-> [num |-> 0, den |-> 1], status |-> "not computed"]
NoRecommendationsYet == <<[resource |-> "not computed", message |-> ""]>>

\* no risk payload is under aggregation
AggregatorIdle == records = <<>> /\ overall = NoOverallYet
\* no pair of quantities is under calculation
GapIdle == available = 0 /\ predicted = 0 /\ resourceGap = NoGapYet
\* no resource payload is under calculation
RecommendIdle == snapshot = <<>> /\ recommendations = NoRecommendationsYet
\* no view has loaded the catalog
NoCatalog == [view |-> "none", upstream |-> <<>>, loaded |-> FALSE, locations |-> <<>>]
CatalogIdle == catalog = NoCatalog
\* the alerts page is not open
NoFeed == [role |-> "none", userLocationId |-> Null, stored |-> <<>>,
           alerts |-> <<>>, previous |-> <<>>, loads |-> 0]
FeedIdle == feed = NoFeed
\* no map is shown
NoMap == [component |-> "none", colorBy |-> "overall", viewMode |-> "risk_levels",
          data |-> <<>>, drawn |-> FALSE, fillColor |-> <<>>, z |-> <<>>,
          colorscale |-> <<>>, clicks |-> 0, lastClick |-> 0, calls |-> 0,
          selected |-> NoSelection]
MapIdle == map = NoMap
ViewsIdle == CatalogIdle /\ FeedIdle /\ MapIdle

NoOutcome == [risk |-> "none", resources |-> "none"]
Issued == [risk |-> "pending", resources |-> "pending"]

\* the state of a Dashboard as constructed (the useState initial values)
Constructed ==
  /\ mounted = FALSE
  /\ tab = 0
  /\ selectedLocation = NoSelection
  /\ locations = <<>>
  /\ summaryData = "null"
  /\ alerts = <<>>
  /\ riskData = NoData
  /\ resourceData = NoData
  /\ isLoading = [summary |-> FALSE, alerts |-> FALSE, risk |-> FALSE, resources |-> FALSE]
  /\ error = ""
  /\ pending = {}
  /\ summaryPending = FALSE
  /\ alertsPending = FALSE
  /\ mapHandler = [registered |-> FALSE, summary |-> FALSE, alerts |-> FALSE]
  /\ sels = <<>>
  /\ cur = NoOutcome
  /\ issued = 0
  /\ lastOp = OtherOp

\* the Dashboard of an administrator, or of a hospital user with a location
InitDashboard ==
  /\ \E r \in {"admin", "hospital"} :
       /\ userRole = r
       /\ userLocationId \in (IF r = "admin" THEN {Null} ELSE UserLocationIds)
  /\ Constructed

\* the Dashboard as constructed; nothing is under calculation
Init == InitDashboard /\ AggregatorIdle /\ GapIdle /\ RecommendIdle /\ ViewsIdle

\* --------------------------------------------------------------- helpers
\* a faulty variant: the selection forgets to call fetchResourceData
IssuePredictions_RiskOnly(l, e, a) == {Fetch("risk", l, e, a)}

\* the two requests one selection issues (fetchRiskData, fetchResourceData)
IssuePredictions(l, e, a) == {Fetch("risk", l, e, a), Fetch("resources", l, e, a)}

\* the other request of the same Promise.all
Sibling(f) == Fetch(IF f.cat = "risk" THEN "resources" ELSE "risk", f.loc, f.epoch, f.all)

\* .then(() => setTab(0)) runs when the last of the two awaited calls returns
TabAfterDone(f) == IF f.all /\ Sibling(f) \notin pending THEN 0 ELSE tab

\* a faulty variant: the guard written as locationId == null || locationId === 0
InvalidLocationId_NoNaN(x) == x \in {0, Null}

\* !locationId || isNaN(locationId)
InvalidLocationId(x) == Falsy(x) \/ isNaN(x)

\* what fetchRiskData's try/catch writes with setRiskData
RiskDataAfter(f, out) == IF out = "ok" THEN Payload(f) ELSE riskData
\* a faulty variant: fetchRiskData clears the error banner when it succeeds
ErrorAfterRisk_ClearsOnSuccess(out) ==
  CASE out = "ok" -> ""
    [] out = "empty" -> MsgRiskNoData
    [] OTHER -> MsgRiskFailed

\* what fetchRiskData's try/catch writes with setError
ErrorAfterRisk(out) ==
  CASE out = "ok" -> error
    [] out = "empty" -> MsgRiskNoData
    [] OTHER -> MsgRiskFailed

\* what fetchResourceData's try/catch writes with setResourceData
ResourceDataAfter(f, out) == IF out = "ok" THEN Payload(f) ELSE resourceData
\* what fetchResourceData's try/catch writes with setError
ErrorAfterResource(out) ==
  CASE out = "ok" -> error
    [] out = "empty" -> MsgResNoData
    [] OTHER -> MsgResFailed

\* the history of the current selection's fetches
CurAfterDone(f, out) ==
  IF f.epoch = request_epoch THEN [cur EXCEPT ![f.cat] = out] ELSE cur

\* --------------------------------------------------------------- actions
\* useEffect(() => {...}, [userRole, userLocationId]) on mount
useEffect ==
  /\ ~mounted
  /\ mounted' = TRUE
  /\ IF IsHospitalWithLocation
       THEN /\ selectedLocation' = [id |-> userLocationId, name |-> "Your Hospital Location"]
            /\ pending' = pending \cup IssuePredictions(userLocationId, request_epoch, FALSE)
            /\ isLoading' = [summary |-> TRUE, alerts |-> TRUE, risk |-> TRUE, resources |-> TRUE]
            /\ issued' = issued + 2
            /\ cur' = Issued
       ELSE /\ isLoading' = [isLoading EXCEPT !.summary = TRUE, !.alerts = TRUE]
            /\ UNCHANGED <<selectedLocation, pending, issued, cur>>
  /\ summaryPending' = TRUE
  /\ alertsPending' = TRUE
  /\ lastOp' = OtherOp
  /\ UNCHANGED <<calcVars, userRole, userLocationId, tab, locations, alerts, riskData, resourceData,
                 error, mapHandler, summaryData, sels>>

\* the continuation of fetchSummaryData after await getDataSummary()
fetchSummaryDataDone(out) ==
  /\ summaryPending
  /\ summaryPending' = FALSE
  /\ summaryData' = IF out = "ok" THEN "data" ELSE IF out = "empty" THEN "empty" ELSE summaryData
  /\ IF out = "ok"
       THEN \E order \in UpstreamOrders : locations' = SortByName(order)
       ELSE locations' = locations
  /\ selectedLocation' =
       IF out = "ok" /\ IsHospitalWithLocation /\ userLocationId \in LocationIds
       THEN [id |-> userLocationId, name |-> LocName(userLocationId)]
       ELSE selectedLocation
  /\ error' =
       IF out = "fail" \/ (out = "empty" /\ IsHospitalWithLocation) THEN MsgSummary ELSE error
  /\ isLoading' = [isLoading EXCEPT !.summary = FALSE]
  /\ lastOp' = OtherOp
  /\ UNCHANGED <<calcVars, userRole, userLocationId, mounted, tab, alerts, riskData, resourceData,
                 pending, alertsPending, mapHandler, sels, cur, issued>>

\* the continuation of fetchAlerts after await getAlerts()
fetchAlertsDone(out) ==
  /\ alertsPending
  /\ alertsPending' = FALSE
  /\ alerts' =
       IF out # "ok" THEN alerts
       ELSE IF IsHospitalWithLocation THEN FilterByLocation(UpstreamAlerts, userLocationId)
       ELSE UpstreamAlerts
  /\ isLoading' = [isLoading EXCEPT !.alerts = FALSE]
  /\ lastOp' = OtherOp
  /\ UNCHANGED <<calcVars, userRole, userLocationId, mounted, tab, selectedLocation, locations,
                 riskData, resourceData, error, pending, summaryPending, mapHandler,
                 summaryData, sels, cur, issued>>

\* a faulty variant: a failed risk fetch also drops the resource snapshot on display
fetchRiskDataDone_ClearsResources(f, out) ==
  /\ f \in pending
  /\ f.cat = "risk"
  /\ riskData' = RiskDataAfter(f, out)
  /\ resourceData' = IF out = "ok" THEN resourceData ELSE NoData
  /\ error' = ErrorAfterRisk(out)
  /\ isLoading' = [isLoading EXCEPT !.risk = FALSE]
  /\ pending' = pending \ {f}
  /\ tab' = TabAfterDone(f)
  /\ cur' = CurAfterDone(f, out)
  /\ lastOp' = OtherOp
  /\ UNCHANGED <<calcVars, userRole, userLocationId, mounted, selectedLocation, locations, alerts,
                 summaryPending, alertsPending, mapHandler, summaryData, sels, issued>>

\* the continuation of fetchRiskData after await predictRisk(locationId),
\* and the .then of the Promise.all when this call was the last of its pair
fetchRiskDataDone(f, out) ==
  /\ f \in pending
  /\ f.cat = "risk"
  /\ riskData' = RiskDataAfter(f, out)
  /\ error' = ErrorAfterRisk(out)
  /\ isLoading' = [isLoading EXCEPT !.risk = FALSE]
  /\ pending' = pending \ {f}
  /\ tab' = TabAfterDone(f)
  /\ cur' = CurAfterDone(f, out)
  /\ lastOp' = OtherOp
  /\ UNCHANGED <<calcVars, userRole, userLocationId, mounted, selectedLocation, locations, alerts,
                 resourceData, summaryPending, alertsPending, mapHandler, summaryData,
                 sels, issued>>

\* the continuation of fetchResourceData after await predictResources(locationId),
\* and the .then of the Promise.all when this call was the last of its pair
fetchResourceDataDone(f, out) ==
  /\ f \in pending
  /\ f.cat = "resources"
  /\ resourceData' = ResourceDataAfter(f, out)
  /\ error' = ErrorAfterResource(out)
  /\ isLoading' = [isLoading EXCEPT !.resources = FALSE]
  /\ pending' = pending \ {f}
  /\ tab' = TabAfterDone(f)
  /\ cur' = CurAfterDone(f, out)
  /\ lastOp' = OtherOp
  /\ UNCHANGED <<calcVars, userRole, userLocationId, mounted, selectedLocation, locations, alerts,
                 riskData, summaryPending, alertsPending, mapHandler, summaryData,
                 sels, issued>>

\* handleLocationSelect(locationId, locationName), run from a closure that
\* saw isLoading.summary = snap.summary and isLoading.alerts = snap.alerts
handleLocationSelect(locationId, locationName, snap) ==
  IF InvalidLocationId(locationId)
  THEN /\ error' = MsgInvalid
       /\ UNCHANGED <<tab, selectedLocation, isLoading, pending, sels, cur, issued>>
  ELSE /\ error' = ""
       /\ selectedLocation' = [id |-> locationId, name |-> locationName]
       /\ isLoading' = [summary |-> snap.summary, alerts |-> snap.alerts,
                        risk |-> TRUE, resources |-> TRUE]
       /\ sels' = Append(sels, locationId)
       /\ pending' = pending \cup IssuePredictions(locationId, request_epoch + 1, TRUE)
       /\ issued' = issued + 2
       /\ cur' = Issued
       /\ UNCHANGED tab

\* onEachFeature: the map layers are created once, with the click closure
\* of the render that created them
onEachFeature ==
  /\ mounted
  /\ ~mapHandler.registered
  /\ mapHandler' = [registered |-> TRUE, summary |-> isLoading.summary,
                    alerts |-> isLoading.alerts]
  /\ lastOp' = OtherOp
  /\ UNCHANGED <<calcVars, userRole, userLocationId, mounted, tab, selectedLocation, locations,
                 alerts, riskData, resourceData, isLoading, error, pending,
                 summaryPending, alertsPending, summaryData, sels, cur, issued>>

\* fewer than n selections have issued their requests
SelectBudget(n) == issued < 2 * n

\* a click on a map region whose record carries location_id l
MapClick(l, n) ==
  /\ mapHandler.registered
  /\ InvalidLocationId(l) \/ SelectBudget(n)
  /\ handleLocationSelect(l, LocName(l), mapHandler)
  /\ lastOp' = Op("select", l)
  /\ UNCHANGED <<calcVars, userRole, userLocationId, mounted, locations, alerts, riskData,
                 resourceData, summaryPending, alertsPending, mapHandler, summaryData>>

\* handleLocationDropdownChange(event) with event.target.value = v
handleLocationDropdownChange(v, n) ==
  /\ mounted
  /\ SelectBudget(n)
  /\ LET locationId == ToNumber(v)
         found == \E i \in 1..Len(locations) : locations[i] = locationId
     IN IF InvalidLocationId(locationId) \/ ~found
        THEN UNCHANGED <<tab, selectedLocation, isLoading, error, pending, sels,
                         cur, issued, lastOp>>
        ELSE /\ handleLocationSelect(locationId, LocName(locationId), isLoading)
             /\ lastOp' = Op("dropdown", v)
  /\ UNCHANGED <<calcVars, userRole, userLocationId, mounted, locations, alerts, riskData,
                 resourceData, summaryPending, alertsPending, mapHandler, summaryData>>

\* handleTabChange(_event, newValue)
handleTabChange(newValue) ==
  /\ selectedLocation # NoSelection
  /\ tab # newValue
  /\ tab' = newValue
  /\ lastOp' = OtherOp
  /\ UNCHANGED <<calcVars, userRole, userLocationId, mounted, selectedLocation, locations, alerts,
                 riskData, resourceData, isLoading, error, pending, summaryPending,
                 alertsPending, mapHandler, summaryData, sels, cur, issued>>

Next ==
  \/ useEffect
  \/ \E out \in Outcomes : fetchSummaryDataDone(out)
  \/ \E out \in {"ok", "fail"} : fetchAlertsDone(out)
  \/ \E f \in pending, out \in Outcomes : fetchRiskDataDone(f, out)
  \/ \E f \in pending, out \in Outcomes : fetchResourceDataDone(f, out)
  \/ onEachFeature
  \/ \E l \in SelectInputs : MapClick(l, MaxSelect)
  \/ \E v \in DropdownValues : handleLocationDropdownChange(v, MaxSelect)
  \/ \E t \in {0, 1} : handleTabChange(t)

Spec == Init /\ [][Next]_vars

\* The runs of an administrator's dashboard in which the summary and the
\* alerts requests are still outstanding (so the dropdown is still empty)
\* and the user clicks map regions: up to MaxSelectRace selections overlap.
InitRace == Init /\ userRole = "admin"

NextRace ==
  \/ useEffect
  \/ onEachFeature
  \/ \E f \in pending, out \in Outcomes : fetchRiskDataDone(f, out)
  \/ \E f \in pending, out \in Outcomes : fetchResourceDataDone(f, out)
  \/ \E l \in RaceInputs : MapClick(l, MaxSelectRace)
  \/ \E t \in {0, 1} : handleTabChange(t)

SpecRace == InitRace /\ [][NextRace]_vars

\* The runs of the alert feed of the Dashboard for every viewer: an
\* administrator, and a hospital user whose token carries any location id
\* or none (getUserLocationId() returns undefined).
InitAlertFeed ==
  /\ userRole \in {"admin", "hospital"}
  /\ userLocationId \in LocationIds \cup {Null}
  /\ Constructed
  /\ AggregatorIdle /\ GapIdle /\ RecommendIdle /\ ViewsIdle

NextAlertFeed ==
  \/ useEffect
  \/ \E out \in Outcomes : fetchSummaryDataDone(out)
  \/ \E out \in {"ok", "fail"} : fetchAlertsDone(out)
  \/ \E f \in pending, out \in Outcomes : fetchRiskDataDone(f, out)
  \/ \E f \in pending, out \in Outcomes : fetchResourceDataDone(f, out)
  \/ onEachFeature
  \/ \E t \in {0, 1} : handleTabChange(t)

SpecAlertFeed == InitAlertFeed /\ [][NextAlertFeed]_vars

\* The runs of a hospital user's dashboard in which the user clicks map
\* regions, of other locations too, while the requests of the mount are
\* outstanding or after they have returned.
InitHospital == Init /\ userRole = "hospital"

NextHospital ==
  \/ useEffect
  \/ \E out \in Outcomes : fetchSummaryDataDone(out)
  \/ \E out \in {"ok", "fail"} : fetchAlertsDone(out)
  \/ \E f \in pending, out \in Outcomes : fetchRiskDataDone(f, out)
  \/ \E f \in pending, out \in Outcomes : fetchResourceDataDone(f, out)
  \/ onEachFeature
  \/ \E l \in RaceInputs : MapClick(l, MaxSelectHospital)
  \/ \E t \in {0, 1} : handleTabChange(t)

SpecHospital == InitHospital /\ [][NextHospital]_vars

\* -------------------------------------------------------- RiskAggregator
\* the diseases, in the order the frontend enumerates them
Diseases == <<"dengue", "malaria", "heatstroke", "diarrhea">>
DiseaseSet == {Diseases[i] : i \in 1..Len(Diseases)}
DiseaseIndex(d) == CHOOSE i \in 1..Len(Diseases) : Diseases[i] = d
RiskLevels == {"low", "medium", "high", "critical", "unknown"}

\* a faulty variant: 'high' and 'critical' exchanged in the table
riskLevelToValue_HighAboveCritical(level) ==
  CASE level = "low" -> 1
    [] level = "medium" -> 2
    [] level = "high" -> 4
    [] level = "critical" -> 3
    [] OTHER -> 0

\* const riskLevelToValue = {low: 1, medium: 2, high: 3, critical: 4, unknown: 0}
riskLevelToValue(level) ==
  CASE level = "low" -> 1
    [] level = "medium" -> 2
    [] level = "high" -> 3
    [] level = "critical" -> 4
    [] OTHER -> 0

\* a DiseaseRiskRecord (its probability plays no part in the level)
DiseaseRiskRecord(d, l) == [disease |-> d, risk_level |-> l]
\* the record sequences of a payload: at most one record per disease
RecordSeqs ==
  UNION {{s \in [1..n -> [disease : DiseaseSet, risk_level : RiskLevels]] :
            \A i, j \in 1..n : s[i].disease = s[j].disease => i = j} :
         n \in 0..Len(Diseases)}

\* aggregate([])
NoOverall == [level |-> "unknown", contributing_disease |-> "null"]

\* a faulty variant: among records of the same level the later one wins
Worse_LaterWins(r, best) ==
  \/ riskLevelToValue(r.risk_level) > riskLevelToValue(best.level)
  \/ riskLevelToValue(r.risk_level) = riskLevelToValue(best.level)

\* record r takes over from the maximum found so far: a higher level, or the
\* same level and a disease earlier in the enumeration
Worse(r, best) ==
  \/ riskLevelToValue(r.risk_level) > riskLevelToValue(best.level)
  \/ /\ riskLevelToValue(r.risk_level) = riskLevelToValue(best.level)
     /\ \/ best.contributing_disease = "null"
        \/ DiseaseIndex(r.disease) < DiseaseIndex(best.contributing_disease)

RECURSIVE aggregateFrom(_, _)
aggregateFrom(recs, best) ==
  IF recs = <<>> THEN best
  ELSE aggregateFrom(Tail(recs),
         IF Worse(Head(recs), best)
         THEN [level |-> Head(recs).risk_level, contributing_disease |-> Head(recs).disease]
         ELSE best)

\* RiskAggregator.aggregate(records): one pass over the records
aggregate(recs) == aggregateFrom(recs, NoOverall)

\* a property the payload does not carry (undefined)
Absent == "undefined"
\* the truthiness of a risk_level read with ?.
Truthy(v) == v \notin {Absent, ""}
\* the places a risk payload may carry overall.risk_level
PayloadKeys == {"risk_prediction", "health_predictions"}
\* a risk payload with overall.risk_level = level under key (under none of
\* the keys when key is Absent)
RiskPayload(key, level) ==
  [risk_prediction |-> IF key = "risk_prediction" THEN level ELSE Absent,
   health_predictions |-> IF key = "health_predictions" THEN level ELSE Absent]

\* level.toUpperCase()
toUpperCase(level) ==
  CASE level = "low" -> "LOW"
    [] level = "medium" -> "MEDIUM"
    [] level = "high" -> "HIGH"
    [] level = "critical" -> "CRITICAL"
    [] level = "unknown" -> "UNKNOWN"
    [] level = "beds" -> "BEDS"
    [] level = "doctors" -> "DOCTORS"
    [] level = "nurses" -> "NURSES"
    [] level = "iv_fluids" -> "IV_FLUIDS"
    [] level = "antibiotics" -> "ANTIBIOTICS"
    [] level = "antipyretics" -> "ANTIPYRETICS"
    [] OTHER -> level

\* the label of the Chip renderRiskLevel(level) returns
renderRiskLevel(level) == toUpperCase(level)

\* a faulty variant: the chip shown when the payload carries no level reads LOW
OverallRiskAssessment_DefaultsLow(payload) ==
  IF Truthy(payload.risk_prediction) THEN renderRiskLevel(payload.risk_prediction)
  ELSE IF Truthy(payload.health_predictions) THEN renderRiskLevel(payload.health_predictions)
  ELSE "LOW"

\* the label under "Overall Risk Assessment:" for a risk payload
OverallRiskAssessment(payload) ==
  IF Truthy(payload.risk_prediction) THEN renderRiskLevel(payload.risk_prediction)
  ELSE IF Truthy(payload.health_predictions) THEN renderRiskLevel(payload.health_predictions)
  ELSE "UNKNOWN"

\* the aggregator runs on the records of the payload
aggregateRecords ==
  /\ overall = NoOverallYet
  /\ overall' = aggregate(records)
  /\ UNCHANGED <<records, available, predicted, resourceGap, snapshot, recommendations>>
  /\ UNCHANGED viewVars
  /\ UNCHANGED <<userRole, userLocationId, mounted, tab, selectedLocation, locations,
                 alerts, riskData, resourceData, isLoading, error, pending,
                 summaryPending, alertsPending, mapHandler, summaryData, sels, cur,
                 issued, lastOp>>

\* every record sequence a risk payload can carry
InitAggregate ==
  /\ InitDashboard /\ userRole = "admin"
  /\ records \in RecordSeqs
  /\ overall = NoOverallYet
  /\ GapIdle /\ RecommendIdle /\ ViewsIdle

NextAggregate == aggregateRecords

SpecAggregate == InitAggregate /\ [][NextAggregate]_vars

\* -------------------------------------------------- ResourceGapCalculator
\* a number n/d with d > 0: the quotients of the quantities are kept exact
Ratio(n, d) == [num |-> n, den |-> d]
Less(x, y) == x.num * y.den < y.num * x.den
\* Math.max(x, y), Math.min(x, y)
MathMax(x, y) == IF Less(x, y) THEN y ELSE x
MathMin(x, y) == IF Less(y, x) THEN y ELSE x
\* (available / predicted) * 100 for predicted # 0
Percentage(a, p) == IF p > 0 THEN Ratio(a * 100, p) ELSE Ratio(0 - a * 100, 0 - p)

\* a faulty variant: the upper clamp Math.min(100, ...) is missing
calculatePercentage_NoUpperClamp(a, p) ==
  IF p = 0 THEN Ratio(100, 1)
  ELSE MathMax(Ratio(0, 1), Percentage(a, p))

\* a faulty variant: no predicted need counts as nothing available
calculatePercentage_NoNeedIsZero(a, p) ==
  IF p = 0 THEN Ratio(0, 1)
  ELSE MathMin(Ratio(100, 1), MathMax(Ratio(0, 1), Percentage(a, p)))

\* calculatePercentage(available, predicted)
calculatePercentage(a, p) ==
  IF p = 0 THEN Ratio(100, 1)
  ELSE MathMin(Ratio(100, 1), MathMax(Ratio(0, 1), Percentage(a, p)))

\* percentage >= n
AtLeast(x, n) == x.num >= n * x.den

\* a faulty variant: the warning band starts above 70
getResourceStatusColor_Above70(percentage) ==
  IF AtLeast(percentage, 100) THEN "success.main"
  ELSE IF percentage.num > 70 * percentage.den THEN "warning.main"
  ELSE "error.main"

\* getResourceStatusColor(percentage)
getResourceStatusColor(percentage) ==
  IF AtLeast(percentage, 100) THEN "success.main"
  ELSE IF AtLeast(percentage, 70) THEN "warning.main"
  ELSE "error.main"

\* the color prop of the LinearProgress of a resource
ProgressColor(statusColor) ==
  IF statusColor = "success.main" THEN "success"
  ELSE IF statusColor = "warning.main" THEN "warning"
  ELSE "error"

\* the ResourceGap the resources page shows for one category
gap(a, p) ==
  [ratio |-> calculatePercentage(a, p),
   status |-> ProgressColor(getResourceStatusColor(calculatePercentage(a, p)))]

\* the page renders the progress bar of a category
renderResourceGap ==
  /\ resourceGap = NoGapYet
  /\ resourceGap' = gap(available, predicted)
  /\ UNCHANGED <<records, overall, available, predicted, snapshot, recommendations>>
  /\ UNCHANGED viewVars
  /\ UNCHANGED <<userRole, userLocationId, mounted, tab, selectedLocation, locations,
                 alerts, riskData, resourceData, isLoading, error, pending,
                 summaryPending, alertsPending, mapHandler, summaryData, sels, cur,
                 issued, lastOp>>

\* the quantities a payload may carry, a negative one included
Quantities == (0 - 1)..MaxQty

InitGap ==
  /\ InitDashboard /\ userRole = "admin"
  /\ available \in Quantities
  /\ predicted \in Quantities
  /\ resourceGap = NoGapYet
  /\ AggregatorIdle /\ RecommendIdle /\ ViewsIdle

NextGap == renderResourceGap

SpecGap == InitGap /\ [][NextGap]_vars

\* ------------------------------------------------ resource recommendations
\* the resource categories of a resource payload, in the order of the page
Categories == <<"beds", "doctors", "nurses", "iv_fluids", "antibiotics", "antipyretics">>

\* a ResourceSnapshot: current_resources[c] and predicted_resources[c]
ResourceSnapshot(c, a, p) == [category |-> c, available |-> a, predicted_need |-> p]
\* the snapshots of a payload with the first n categories
Snapshots(n) ==
  {s \in [1..n -> [category : {Categories[i] : i \in 1..n},
                   available : 0..MaxSnapQty, predicted_need : 0..MaxSnapQty]] :
     \A i \in 1..n : s[i].category = Categories[i]}

\* the gap of a snapshot is not sufficient: its ratio is defined and below 100
Deficit(r) == r.predicted_need # 0 /\ r.available * 100 < 100 * r.predicted_need

\* the recommendations of a payload: one entry, with its deficit message,
\* for every category whose gap is not sufficient
RECURSIVE Recommend(_)
Recommend(snaps) ==
  IF snaps = <<>> THEN <<>>
  ELSE (IF Deficit(Head(snaps))
        THEN <<[resource |-> Head(snaps).category, message |-> "deficit"]>>
        ELSE <<>>) \o Recommend(Tail(snaps))

\* a faulty variant: a single recommendation is shown as 'sufficient'
ResourceRecommendations_SufficientIfOne(recs) ==
  IF Len(recs) <= 1
  THEN [severity |-> "success", titles |-> <<>>]
  ELSE [severity |-> "warning", titles |-> [i \in 1..Len(recs) |-> toUpperCase(recs[i].resource)]]

\* the "Resource Recommendations" card: the success Alert when the list is
\* empty, else one warning Alert per entry, titled rec.resource.toUpperCase()
ResourceRecommendations(recs) ==
  IF Len(recs) = 0
  THEN [severity |-> "success", titles |-> <<>>]
  ELSE [severity |-> "warning", titles |-> [i \in 1..Len(recs) |-> toUpperCase(recs[i].resource)]]

\* the prediction service fills in the recommendations of the payload
recommend ==
  /\ recommendations = NoRecommendationsYet
  /\ recommendations' = Recommend(snapshot)
  /\ UNCHANGED <<records, overall, available, predicted, resourceGap, snapshot>>
  /\ UNCHANGED viewVars
  /\ UNCHANGED <<userRole, userLocationId, mounted, tab, selectedLocation, locations,
                 alerts, riskData, resourceData, isLoading, error, pending,
                 summaryPending, alertsPending, mapHandler, summaryData, sels, cur,
                 issued, lastOp>>

InitRecommend ==
  /\ InitDashboard /\ userRole = "admin"
  /\ \E n \in 0..MaxCategories : snapshot \in Snapshots(n)
  /\ recommendations = NoRecommendationsYet
  /\ AggregatorIdle /\ GapIdle /\ ViewsIdle

NextRecommend == recommend

SpecRecommend == InitRecommend /\ [][NextRecommend]_vars

\* ------------------------------------------- views that load the catalog
\* The Dashboard, the disease map page and the forecasts page each load the
\* location list and hand it to their location selector.

\* location ids are 0..MaxCatalog in a run of SpecCatalog
MaxCatalog == 3

\* the state of the Dashboard, which no step of another view touches
dashboardVars == <<userRole, userLocationId, mounted, tab, selectedLocation, locations,
                   alerts, riskData, resourceData, isLoading, error, pending,
                   summaryPending, alertsPending, mapHandler, summaryData, sels, cur,
                   issued, lastOp>>

CatalogViews == {"dashboard", "disease-map", "forecasts"}

\* the location lists the backend may return: any locations in any order
UpstreamLocations ==
  UNION {{s \in [1..n -> 0..MaxCatalog] : \A i, j \in 1..n : s[i] = s[j] => i = j}
           : n \in 0..(MaxCatalog + 1)}

Loaded(list) == [catalog EXCEPT !.loaded = TRUE, !.locations = list]

\* Dashboard: summaryData.locations mapped to options, sorted, setLocations
fetchSummaryData ==
  /\ catalog.view = "dashboard" /\ ~catalog.loaded
  /\ catalog' = Loaded(SortByName(catalog.upstream))
  /\ UNCHANGED <<records, overall, available, predicted, resourceGap, snapshot,
                 recommendations, feed, map>>
  /\ UNCHANGED dashboardVars

\* DiseaseMapPage: setLocations(await getLocations())
fetchMapData ==
  /\ catalog.view = "disease-map" /\ ~catalog.loaded
  /\ catalog' = Loaded(catalog.upstream)
  /\ UNCHANGED <<records, overall, available, predicted, resourceGap, snapshot,
                 recommendations, feed, map>>
  /\ UNCHANGED dashboardVars

\* ForecastsPage: setLocations(await getLocations())
fetchLocations ==
  /\ catalog.view = "forecasts" /\ ~catalog.loaded
  /\ catalog' = Loaded(catalog.upstream)
  /\ UNCHANGED <<records, overall, available, predicted, resourceGap, snapshot,
                 recommendations, feed, map>>
  /\ UNCHANGED dashboardVars

InitCatalog ==
  /\ InitDashboard /\ userRole = "admin"
  /\ AggregatorIdle /\ GapIdle /\ RecommendIdle
  /\ \E v \in CatalogViews, up \in UpstreamLocations :
       catalog = [view |-> v, upstream |-> up, loaded |-> FALSE, locations |-> <<>>]
  /\ FeedIdle /\ MapIdle

NextCatalog ==
  \/ fetchSummaryData
  \/ fetchMapData
  \/ fetchLocations

SpecCatalog == InitCatalog /\ [][NextCatalog]_vars

\* ------------------------------------------------------ the alert feed
\* AlertsPage (pages/alerts.tsx) and the alerts card of the Dashboard: both
\* ask /data/alerts for the alerts at or above a risk threshold and show
\* them, restricted to the viewer's location for a hospital user.

\* the alerts the backend holds in a run of SpecAlertsPage
MaxAlerts == 3

\* probabilities are kept in hundredths: 0.7 is 70
RiskThreshold == 70
Probabilities == {50, 70, 90}
AlertLocations == {1, 2}
AlertRecord(l, p) == [location_id |-> l, probability |-> p]
\* the alerts the backend may hold, in the order it lists them
StoredAlerts ==
  UNION {[1..n -> {AlertRecord(l, p) : l \in AlertLocations, p \in Probabilities}]
           : n \in 0..MaxAlerts}

\* GET /data/alerts?risk_threshold=t: the alerts whose probability reaches t
AlertsEndpoint(stored, t) == SelectSeq(stored, LAMBDA a : a.probability >= t)

\* api.get('/data/alerts', {params: {risk_threshold: riskThreshold}})
getAlerts_NoThresholdParam(stored, riskThreshold) == AlertsEndpoint(stored, 0)
getAlerts(stored, riskThreshold) == AlertsEndpoint(stored, riskThreshold)

\* the argument of setAlerts: data.alerts, filtered for a hospital user
\* whose location id is truthy
ShownAlerts_NewestFirst(role, locationId, data) ==
  IF role # "admin" /\ ~Falsy(locationId)
  THEN LET kept == SelectSeq(data, LAMBDA a : a.location_id = locationId)
       IN [i \in 1..Len(kept) |-> kept[Len(kept) + 1 - i]]
  ELSE data
ShownAlerts(role, locationId, data) ==
  IF role # "admin" /\ ~Falsy(locationId)
  THEN SelectSeq(data, LAMBDA a : a.location_id = locationId)
  ELSE data

\* the effect that fetches the alerts: it runs when the page opens and
\* again when the page is opened again
fetchAlerts ==
  /\ feed.loads < 2
  /\ feed' = [feed EXCEPT
                !.loads = @ + 1,
                !.previous = feed.alerts,
                !.alerts = ShownAlerts(feed.role, feed.userLocationId,
                                       getAlerts(feed.stored, RiskThreshold))]
  /\ UNCHANGED <<records, overall, available, predicted, resourceGap, snapshot,
                 recommendations, catalog, map>>
  /\ UNCHANGED dashboardVars

InitAlertsPage ==
  /\ InitDashboard /\ userRole = "admin"
  /\ AggregatorIdle /\ GapIdle /\ RecommendIdle
  /\ CatalogIdle /\ MapIdle
  /\ \E r \in {"admin", "hospital"}, l \in {Null, 0} \cup AlertLocations,
        st \in StoredAlerts :
       feed = [NoFeed EXCEPT !.role = r, !.userLocationId = l, !.stored = st]

NextAlertsPage == fetchAlerts

SpecAlertsPage == InitAlertsPage /\ [][NextAlertsPage]_vars

\* ------------------------------------------------------ MapPresentation
\* The three map components: IndiaLeafletMap (the Dashboard's map),
\* DiseaseMap (the disease map page) and the Plotly IndiaMap.  Each draws
\* one region per state, colors it by the record of that name in its
\* data, and reports a click on a region through onLocationClick.

\* the regions of the map are 1..MaxRegions in a run of SpecMap
MaxRegions == 2
\* the clicks of a run of SpecMap
MaxClicks == 2

MapComponents == {"IndiaLeafletMap", "DiseaseMap", "IndiaMap"}
LeafletComponents == {"IndiaLeafletMap", "DiseaseMap"}
ColorBys == {"dengue", "malaria", "heatstroke", "diarrhea", "overall"}
ViewModes == {"risk_levels", "rates"}
Regions == 1..MaxRegions
\* feature.properties.NAME_1 of a region
RegionName(r) == LocName(r)
\* the case rates a record may carry, one below and one above every
\* breakpoint of the rate scale that separates them
Rates == {3, 150}

\* data.find(loc => loc.name === stateName) found nothing
NoLocationData == [found |-> FALSE, location_id |-> Null, risk_level |-> "unknown", rate |-> 0]
\* the record data.find returns for a region: `${colorBy}_risk_level` (an
\* absent level reads as 'unknown') and the rate colorBy selects
LocationData(id, level, rate) ==
  [found |-> TRUE, location_id |-> id, risk_level |-> level, rate |-> rate]
\* what the data of a map may hold for region r
RegionData(r) ==
  {NoLocationData} \cup {LocationData(r, l, v) : l \in RiskLevels, v \in Rates}

\* getColor of IndiaLeafletMap and of DiseaseMap
getColor(viewMode, locationData) ==
  IF ~locationData.found THEN "#CCCCCC"
  ELSE IF viewMode = "risk_levels"
  THEN CASE locationData.risk_level = "low" -> "#66BB6A"
         [] locationData.risk_level = "medium" -> "#FFA726"
         [] locationData.risk_level = "high" -> "#EF5350"
         [] locationData.risk_level = "critical" -> "#7B1FA2"
         [] OTHER -> "#CCCCCC"
  ELSE IF locationData.rate > 100 THEN "#7B1FA2"
  ELSE IF locationData.rate > 50 THEN "#EF5350"
  ELSE IF locationData.rate > 20 THEN "#FFA726"
  ELSE IF locationData.rate > 5 THEN "#FFEE58"
  ELSE "#66BB6A"

\* style(feature).fillColor for every region, as <GeoJSON style={style}>
\* applies it to every layer
setStyle_FirstRegionOnly(m) ==
  [r \in Regions |-> IF r = 1 \/ ~m.drawn THEN getColor(m.viewMode, m.data[r])
                     ELSE m.fillColor[r]]
setStyle(m) == [r \in Regions |-> getColor(m.viewMode, m.data[r])]

\* a stop of a Plotly colorscale: its position in tenths and its color
Stop(at, color) == [at |-> at, color |-> color]
\* IndiaMap.getColorScale
getColorScale(viewMode, colorBy) ==
  IF viewMode = "risk_levels"
  THEN <<Stop(0, "rgb(200, 200, 200)"), Stop(2, "rgb(120, 220, 120)"),
         Stop(4, "rgb(255, 255, 0)"), Stop(6, "rgb(255, 140, 0)"),
         Stop(8, "rgb(255, 0, 0)")>>
  ELSE CASE colorBy = "dengue" ->
              <<Stop(0, "rgb(255, 255, 230)"), Stop(5, "rgb(255, 140, 0)"), Stop(10, "rgb(178, 34, 34)")>>
         [] colorBy = "malaria" ->
              <<Stop(0, "rgb(240, 255, 240)"), Stop(5, "rgb(0, 128, 0)"), Stop(10, "rgb(0, 64, 0)")>>
         [] colorBy = "heatstroke" ->
              <<Stop(0, "rgb(255, 255, 200)"), Stop(5, "rgb(255, 170, 0)"), Stop(10, "rgb(255, 0, 0)")>>
         [] colorBy = "diarrhea" ->
              <<Stop(0, "rgb(240, 240, 255)"), Stop(5, "rgb(0, 170, 255)"), Stop(10, "rgb(0, 0, 128)")>>
         [] OTHER ->
              <<Stop(0, "rgb(240, 240, 240)"), Stop(5, "rgb(255, 200, 0)"), Stop(10, "rgb(255, 0, 0)")>>

\* IndiaMap.getColorValues: the z of every record of the data
getColorValues(viewMode, data) ==
  [r \in Regions |->
     IF ~data[r].found THEN 0
     ELSE IF viewMode = "rates" THEN data[r].rate
     ELSE riskLevelToValue(data[r].risk_level)]

\* one render pass: the leaflet maps restyle every layer, IndiaMap hands z
\* and colorscale to the Plot
Render(m) ==
  IF m.component \in LeafletComponents
  THEN [m EXCEPT !.drawn = TRUE, !.fillColor = setStyle(m)]
  ELSE [m EXCEPT !.drawn = TRUE,
                 !.z = getColorValues(m.viewMode, m.data),
                 !.colorscale = getColorScale(m.viewMode, m.colorBy)]

\* the first render of the map once its data and its GeoJSON are loaded
renderMap ==
  /\ ~map.drawn
  /\ map' = Render(map)
  /\ UNCHANGED <<records, overall, available, predicted, resourceGap, snapshot,
                 recommendations, catalog, feed>>
  /\ UNCHANGED dashboardVars

\* the view mode toggle: setViewMode(newMode) unless newMode is null, and
\* the render pass the state change causes
handleViewModeChange(newMode) ==
  /\ map.drawn
  /\ newMode # "null"
  /\ newMode # map.viewMode
  /\ map' = Render([map EXCEPT !.viewMode = newMode])
  /\ UNCHANGED <<records, overall, available, predicted, resourceGap, snapshot,
                 recommendations, catalog, feed>>
  /\ UNCHANGED dashboardVars

\* does a click on the region reach onLocationClick: the leaflet maps
\* register the click handler only for a region with a record, IndiaMap
\* looks the record up and checks Number(location_id)
EmitsClick_Always(m, r) == TRUE
EmitsClick(m, r) ==
  IF m.component \in LeafletComponents
  THEN m.data[r].found
  ELSE m.data[r].found /\ ~isNaN(ToNumber(m.data[r].location_id))

\* a click on region r of the drawn map
clickRegion(r) ==
  /\ map.drawn
  /\ map.clicks < MaxClicks
  /\ map' = IF EmitsClick(map, r)
            THEN [map EXCEPT !.clicks = @ + 1, !.lastClick = r, !.calls = @ + 1,
                             !.selected = [id |-> map.data[r].location_id,
                                           name |-> RegionName(r)]]
            ELSE [map EXCEPT !.clicks = @ + 1, !.lastClick = r]
  /\ UNCHANGED <<records, overall, available, predicted, resourceGap, snapshot,
                 recommendations, catalog, feed>>
  /\ UNCHANGED dashboardVars

InitMap ==
  /\ InitDashboard /\ userRole = "admin"
  /\ AggregatorIdle /\ GapIdle /\ RecommendIdle
  /\ CatalogIdle /\ FeedIdle
  /\ \E c \in MapComponents, by \in ColorBys,
        d \in {f \in [Regions -> UNION {RegionData(r) : r \in Regions}] :
                 \A r \in Regions : f[r] \in RegionData(r)} :
       map = [NoMap EXCEPT !.component = c, !.colorBy = by, !.data = d,
                           !.fillColor = [r \in Regions |-> "none"],
                           !.z = [r \in Regions |-> 0]]

NextMap ==
  \/ renderMap
  \/ \E newMode \in ViewModes \cup {"null"} : handleViewModeChange(newMode)
  \/ \E r \in Regions : clickRegion(r)

SpecMap == InitMap /\ [][NextMap]_vars

\* ------------------------------------------------------- reading a step
\* the prediction requests that completed in this step
Completed == pending \ pending'
RiskCompleted == \E f \in Completed : f.cat = "risk"
ResourceCompleted == \E f \in Completed : f.cat = "resources"
\* a request is stale when a later selection has been issued since
StaleCompleted == \E f \in Completed : f.epoch # request_epoch
\* the messages of each category
RiskErrors == {MsgRiskNoData, MsgRiskFailed}
ResourceErrors == {MsgResNoData, MsgResFailed}
\* the data on display is what the request completed in this step returned
ShowsCompleted(data) == \A f \in Completed : data = [loc |-> f.loc, epoch |-> f.epoch]

\* ---------------------------------------------------------------- claims
\* C1: a risk or resource result is written to riskData / resourceData only
\* if the epoch it was tagged with when issued equals the current
\* request_epoch; the result of an earlier selection is discarded.
C1_AppliedOnlyIfCurrent ==
  [][ /\ (riskData' # riskData => riskData'.epoch = request_epoch')
      /\ (resourceData' # resourceData => resourceData'.epoch = request_epoch') ]_vars

\* C2: after select(1), select(2), once every fetch has resolved (location
\* 2's successfully), the visible risk and resource data are location 2's.
C2_VisibleIsLocation2 ==
  (sels = <<1, 2>> /\ pending = {} /\ cur = [risk |-> "ok", resources |-> "ok"])
    => (riskData.loc = 2 /\ resourceData.loc = 2)

\* C3: after select(A), select(B), select(A), the response of the first
\* select(A) is never applied to the visible state.
C3_FirstResponseNeverApplied ==
  [][ (Len(sels) = 3 /\ sels[1] = sels[3] /\ sels[2] # sels[1])
        => /\ (riskData' # riskData => riskData'.epoch # 1)
           /\ (resourceData' # resourceData => resourceData'.epoch # 1) ]_vars

C6_EveryNumericIdIsValid ==
  [][ (lastOp'.op = "select" /\ lastOp'.arg \in LocationIds)
        => /\ selectedLocation'.id = lastOp'.arg
           /\ Cardinality(pending' \ pending) = 2 ]_vars

C8_ErrorsAreCategoryScoped ==
  [][ /\ (RiskCompleted /\ error \in ResourceErrors) => error' = error
      /\ (ResourceCompleted /\ error \in RiskErrors) => error' = error ]_vars

\* C9: a failed risk fetch leaves resourceData unchanged and a failed
\* resource fetch leaves riskData unchanged; no completion issues a fetch;
\* the fetches issued are two per valid select plus the two of the
\* pre-selection of a hospital user.
C9_Frame ==
  /\ RiskCompleted => resourceData' = resourceData
  /\ ResourceCompleted => riskData' = riskData
  /\ Completed # {} => (pending' \subseteq pending /\ issued' = issued)
  /\ pending' \subseteq pending
       \/ (request_epoch' = request_epoch + 1 /\ Cardinality(pending' \ pending) = 2)
       \/ (~mounted /\ IsHospitalWithLocation /\ Cardinality(pending' \ pending) = 2)

C9_Count ==
  issued = 2 * request_epoch + (IF mounted /\ IsHospitalWithLocation THEN 2 ELSE 0)

C9_NoRetryNoCrossInvalidation == []C9_Count /\ [][C9_Frame]_vars

\* both fetches of a selection have failed; nothing was issued again
C9_Witness ==
  /\ cur = [risk |-> "fail", resources |-> "fail"]
  /\ request_epoch = 1
  /\ issued = 2
  /\ pending = {}

\* C10: the completion of a stale fetch changes neither the displayed data,
\* nor a loading flag, nor the error state, nor the selected tab.
C10_StaleCompletionHasNoEffect ==
  [][ StaleCompleted => UNCHANGED <<riskData, resourceData, isLoading, error, tab>> ]_vars

\* the requests of category c issued by the selection now current
CurrentPending(c) == {f \in pending : f.cat = c /\ f.epoch = request_epoch}

\* C11: while the fetch the current selection issued for a category is
\* outstanding and no new selection is made, the category stays loading:
\* no step ends its loading flag or replaces its data, the completion of
\* the other category's fetch included.
C11_LoadingUntilOwnCompletion ==
  [][ /\ (sels' = sels /\ CurrentPending("risk") # {}
            /\ CurrentPending("risk") \subseteq pending' /\ isLoading.risk)
           => (isLoading'.risk /\ riskData' = riskData)
      /\ (sels' = sels /\ CurrentPending("resources") # {}
            /\ CurrentPending("resources") \subseteq pending' /\ isLoading.resources)
           => (isLoading'.resources /\ resourceData' = resourceData) ]_vars

\* ------------------------------------------------- claims: RiskAggregator
\* the order unknown < low < medium < high < critical
LevelOrder == <<"unknown", "low", "medium", "high", "critical">>
LevelRank(l) == CHOOSE i \in 1..Len(LevelOrder) : LevelOrder[i] = l
\* the records whose level no other record exceeds
MaximalRecords(recs) ==
  {i \in 1..Len(recs) :
     \A j \in 1..Len(recs) : LevelRank(recs[j].risk_level) <= LevelRank(recs[i].risk_level)}
\* the rearrangements of a sequence
PermutationsOf(recs) ==
  {t \in [1..Len(recs) -> {recs[i] : i \in 1..Len(recs)}] :
     \A i, j \in 1..Len(recs) : t[i] = t[j] => i = j}
\* the risk payloads that carry the computed overall level
OverallPayloads == {RiskPayload(key, overall.level) : key \in PayloadKeys}

\* C12: for a non-empty record sequence the overall level, and the label
\* shown under "Overall Risk Assessment", is the maximum of the records'
\* levels under unknown < low < medium < high < critical; one critical
\* record makes it critical.
C12_OverallIsMaximum ==
  (overall # NoOverallYet /\ records # <<>>)
    => /\ \E i \in MaximalRecords(records) : overall.level = records[i].risk_level
       /\ (\E i \in 1..Len(records) : records[i].risk_level = "critical")
            => overall.level = "critical"
       /\ \A payload \in OverallPayloads :
            \E i \in MaximalRecords(records) :
              OverallRiskAssessment(payload) = toUpperCase(records[i].risk_level)

\* {dengue: critical, malaria: low} gave critical with contributing dengue
C12_Witness ==
  /\ records = <<DiseaseRiskRecord("dengue", "critical"), DiseaseRiskRecord("malaria", "low")>>
  /\ overall = [level |-> "critical", contributing_disease |-> "dengue"]

\* C13: aggregate returns the same OverallRisk for every permutation of the
\* records; among the diseases that share the maximum level the
\* contributing disease is the first in the order dengue, malaria,
\* heatstroke, diarrhea.
C13_OrderIndependent ==
  (overall # NoOverallYet /\ records # <<>>)
    => /\ \A t \in PermutationsOf(records) : aggregate(t) = overall
       /\ \E i \in MaximalRecords(records) :
            /\ overall.contributing_disease = records[i].disease
            /\ \A j \in MaximalRecords(records) :
                 DiseaseIndex(records[i].disease) <= DiseaseIndex(records[j].disease)

\* malaria and dengue share the maximum, malaria comes first in the input
C13_Witness ==
  /\ records = <<DiseaseRiskRecord("malaria", "high"), DiseaseRiskRecord("dengue", "high"),
                 DiseaseRiskRecord("diarrhea", "low")>>
  /\ overall = [level |-> "high", contributing_disease |-> "dengue"]

\* C14: aggregate of the empty sequence is {unknown, null}, and a payload
\* with no per-disease record is displayed as overall UNKNOWN.
C14_EmptyIsUnknown ==
  (overall # NoOverallYet /\ records = <<>>)
    => /\ overall = [level |-> "unknown", contributing_disease |-> "null"]
       /\ \A key \in PayloadKeys \cup {Absent} :
            OverallRiskAssessment(RiskPayload(key, overall.level)) = "UNKNOWN"

C14_Witness == records = <<>> /\ overall = NoOverall

\* ------------------------------------------ claims: ResourceGapCalculator
\* the status names of the ResourceGap for the colors of the progress bar
StatusName(color) ==
  CASE color = "success" -> "sufficient"
    [] color = "warning" -> "warning"
    [] color = "error" -> "critical"
    [] OTHER -> "none"
GapComputed == resourceGap # NoGapYet
\* the ratio is the number n
RatioIs(n) == resourceGap.ratio.num = n * resourceGap.ratio.den

\* C15: for every non-negative available, gap(available, 0) has ratio 100
\* and status sufficient.
C15_NoNeedIsSufficient ==
  (GapComputed /\ available >= 0 /\ predicted = 0)
    => (RatioIs(100) /\ StatusName(resourceGap.status) = "sufficient")

\* gap(0, 0) = {ratio: 100, status: sufficient}
C15_Witness ==
  /\ available = 0 /\ predicted = 0
  /\ RatioIs(100) /\ resourceGap.status = "success"

C17_StatusFromRatio ==
  GapComputed
    => LET r == resourceGap.ratio
           st == StatusName(resourceGap.status)
       IN /\ st \in {"sufficient", "warning", "critical"}
          /\ (st = "sufficient") <=> (r.num >= 100 * r.den)
          /\ (st = "warning") <=> (r.num >= 70 * r.den /\ r.num < 100 * r.den)
          /\ (st = "critical") <=> (r.num < 70 * r.den)

\* gap(70, 100) is warning
C17_Witness ==
  /\ available = 70 /\ predicted = 100
  /\ RatioIs(70) /\ resourceGap.status = "warning"

\* C18: gap fails with InvalidQuantity when available or predicted is
\* negative; it returns no ratio and status for such an input.
C18_NegativeIsRejected ==
  (GapComputed /\ (available < 0 \/ predicted < 0))
    => resourceGap.status = "InvalidQuantity"

\* ----------------------------------------- claims: resource recommendations
RecommendationsComputed == recommendations # NoRecommendationsYet
\* the status the page computes for a snapshot of the same payload
SnapshotStatus(r) == StatusName(gap(r.available, r.predicted_need).status)
\* the titles of the warning Alerts on display
ShownTitles ==
  LET card == ResourceRecommendations(recommendations)
  IN {card.titles[i] : i \in 1..Len(card.titles)}

\* C19: the recommendation list on display has an entry for a category if and
\* only if the gap of that category is not sufficient; when every category
\* is sufficient the list is empty and the 'sufficient' Alert is shown.
C19_RecommendationsMatchStatus ==
  RecommendationsComputed
    => /\ \A i \in 1..Len(snapshot) :
            (toUpperCase(snapshot[i].category) \in ShownTitles)
              <=> (SnapshotStatus(snapshot[i]) # "sufficient")
       /\ Cardinality(ShownTitles)
            = Cardinality({i \in 1..Len(snapshot) : SnapshotStatus(snapshot[i]) # "sufficient"})
       /\ (ResourceRecommendations(recommendations).severity = "success")
            <=> (\A i \in 1..Len(snapshot) : SnapshotStatus(snapshot[i]) = "sufficient")

\* beds are short (3 of 4: warning), doctors are sufficient: one entry, BEDS
C19_Witness ==
  /\ snapshot = <<ResourceSnapshot("beds", 3, 4), ResourceSnapshot("doctors", 2, 2)>>
  /\ recommendations = <<[resource |-> "beds", message |-> "deficit"]>>
  /\ ShownTitles = {"BEDS"}

\* ------------------------------------------------------ claims: AlertFeed
\* C20: for a viewer who is not an administrator, whatever the viewer's
\* location id (an absent one included), every alert on display has the
\* viewer's location id.
C20_AlertsScopedToViewer ==
  userRole # "admin" => \A i \in 1..Len(alerts) : alerts[i] = userLocationId

\* -------------------------------------------- claims: loading and display
\* C27: whenever a risk (resp. resource) fetch issued for the current
\* selection is in flight, isLoading.risk (resp. isLoading.resources) is
\* true.
C27_LoadingWhileCurrentInFlight ==
  /\ CurrentPending("risk") # {} => isLoading.risk
  /\ CurrentPending("resources") # {} => isLoading.resources

\* C28: after a selection whose risk (resp. resource) fetch failed or
\* returned no data, a category that is not loading and shows data shows
\* data fetched for the active location.
C28_ShownDataIsOfActiveLocation ==
  /\ (cur.risk \in {"empty", "fail"} /\ ~isLoading.risk /\ riskData # NoData)
       => riskData.loc = selectedLocation.id
  /\ (cur.resources \in {"empty", "fail"} /\ ~isLoading.resources /\ resourceData # NoData)
       => resourceData.loc = selectedLocation.id

\* C29: handleLocationSelect leaves isLoading.summary and isLoading.alerts
\* unchanged, also when it runs from a map click handler registered during
\* an earlier render.
C29_SelectKeepsSummaryAndAlertsFlags ==
  [][ lastOp'.op \in {"select", "dropdown"}
        => /\ isLoading'.summary = isLoading.summary
           /\ isLoading'.alerts = isLoading.alerts ]_vars

\* C30: the completion of the summary fetch never changes the id of the
\* active location.
C30_SummaryKeepsActiveLocation ==
  [][ (summaryPending /\ ~summaryPending') => selectedLocation'.id = selectedLocation.id ]_vars

\* --------------------------------------------- claims: LocationCatalog
\* the names of a location list are in non-decreasing order
SortedByName(list) == \A i \in 1..(Len(list) - 1) : NameLeq(list[i], list[i + 1])
\* two duplicate-free lists hold the same locations
SameLocations(a, b) ==
  /\ Len(a) = Len(b)
  /\ {a[i] : i \in 1..Len(a)} = {b[i] : i \in 1..Len(b)}

\* C26: in every view that loads the catalog, and for every order in which
\* the upstream returns the locations, the list handed to the selector is a
\* permutation of the upstream list sorted by display name.
C26_CatalogSortedInEveryView ==
  catalog.loaded
    => /\ SameLocations(catalog.locations, catalog.upstream)
       /\ SortedByName(catalog.locations)

\* ------------------------------------------------ claims: the alert feed
\* the alert feed has produced its output
FeedLoaded == feed.loads > 0
InSeq(a, list) == \E i \in 1..Len(list) : list[i] = a
\* the role restriction of the feed: an administrator sees every location,
\* another viewer the alerts of the viewer's location
PassesRole(a) == feed.role = "admin" \/ a.location_id = feed.userLocationId

\* C21: every alert the feed shows has probability >= threshold, and every
\* stored alert with probability >= threshold that passes the role
\* restriction is shown.
C21_ThresholdKept ==
  FeedLoaded
    => /\ \A i \in 1..Len(feed.alerts) : feed.alerts[i].probability >= RiskThreshold
       /\ \A i \in 1..Len(feed.stored) :
            (feed.stored[i].probability >= RiskThreshold /\ PassesRole(feed.stored[i]))
              => InSeq(feed.stored[i], feed.alerts)

\* the feed showed some alert and dropped another for its probability
C21_Witness ==
  /\ FeedLoaded
  /\ feed.alerts # <<>>
  /\ \E i \in 1..Len(feed.stored) : feed.stored[i].probability < RiskThreshold

\* out is a subsequence of list: it is list with some elements left out
RECURSIVE IsSubsequence(_, _)
IsSubsequence(out, list) ==
  IF out = <<>> THEN TRUE
  ELSE IF list = <<>> THEN FALSE
  ELSE IF Head(out) = Head(list) THEN IsSubsequence(Tail(out), Tail(list))
  ELSE IsSubsequence(out, Tail(list))

ColorName(color) ==
  CASE color \in {"#CCCCCC", "rgb(200, 200, 200)"} -> "gray"
    [] color \in {"#66BB6A", "rgb(120, 220, 120)"} -> "green"
    [] color \in {"#FFEE58", "rgb(255, 255, 0)"} -> "yellow"
    [] color \in {"#FFA726", "rgb(255, 140, 0)"} -> "orange"
    [] color \in {"#EF5350", "rgb(255, 0, 0)"} -> "red"
    [] color = "#7B1FA2" -> "purple"
    [] OTHER -> "other"

\* the five-point ordinal scale
ScaleOf(level) ==
  CASE level = "low" -> {"green"}
    [] level = "medium" -> {"yellow"}
    [] level = "high" -> {"orange"}
    [] level = "critical" -> {"red", "purple"}
    [] OTHER -> {"gray"}

\* the color of the stop the colorscale places at a risk level's value: the
\* values 0..4 are spread over stops a fifth apart
StopColor(scale, value) ==
  LET at == {i \in 1..Len(scale) : scale[i].at = 2 * value}
  IN IF at = {} THEN "none" ELSE scale[CHOOSE i \in at : TRUE].color

\* the color the map gives the region
RegionColor(r) ==
  IF map.component \in LeafletComponents THEN map.fillColor[r]
  ELSE StopColor(map.colorscale, map.z[r])

\* C23: in risk_levels mode every map component, under every disease filter,
\* colors a location by its risk level alone: unknown gray, low green,
\* medium yellow, high orange, critical red or purple.
C23_OneRiskLevelScale ==
  (map.drawn /\ map.viewMode = "risk_levels")
    => \A r \in Regions :
         map.data[r].found => ColorName(RegionColor(r)) \in ScaleOf(map.data[r].risk_level)

\* C24: within one render pass every region's color is computed under the
\* same view mode, the current one; after a change of view mode no region
\* keeps the color of the other mode.
C24_OneModePerRender ==
  map.drawn
    => /\ map.component \in LeafletComponents
            => \A r \in Regions : map.fillColor[r] = getColor(map.viewMode, map.data[r])
       /\ map.component = "IndiaMap"
            => /\ map.z = getColorValues(map.viewMode, map.data)
               /\ map.colorscale = getColorScale(map.viewMode, map.colorBy)

\* a leaflet map in rate mode, whose two regions would both be colored
\* differently by risk level
C24_Witness ==
  /\ map.drawn /\ map.component = "IndiaLeafletMap" /\ map.viewMode = "rates"
  /\ \A r \in Regions : map.fillColor[r] # getColor("risk_levels", map.data[r])

\* C25: a click on a region with a matching record calls onLocationClick
\* with that record's location_id; a click on a region without one changes
\* nothing: no call, no other selection, no change of the map or the
\* Dashboard.
C25_ClickEmitsOrIsNoOp ==
  [][ map'.clicks # map.clicks
        => LET r == map'.lastClick
           IN IF map.data[r].found
              THEN /\ map'.calls = map.calls + 1
                   /\ map'.selected = [id |-> map.data[r].location_id, name |-> RegionName(r)]
              ELSE /\ map' = [map EXCEPT !.clicks = map'.clicks, !.lastClick = r]
                   /\ UNCHANGED dashboardVars ]_vars

\* a click selected a region, and the next click, on a region without a
\* record, left that selection
C25_Witness ==
  /\ map.clicks = 2 /\ map.calls = 1
  /\ ~map.data[map.lastClick].found
  /\ map.selected # NoSelection
====
